---- MODULE Spec2Model ----
(***************************************************************************)
(* A model of the trash utility of src/trash/trash.py: the class Trash,    *)
(* its five commands and the helpers they call, over a small filesystem.   *)
(*                                                                         *)
(* A file name is a sequence of one-character strings, a path a sequence   *)
(* of names from the root, a tree a function from paths to nodes ("dir" or *)
(* a file's content).  The live tree is everything outside the trash; the  *)
(* files area is a tree rooted at <trash>/files; the info area maps a      *)
(* stored name X to the text of <trash>/info/X.trashinfo.                  *)
(*                                                                         *)
(* One process runs one command (cli.main).  A Call action is the part of  *)
(* the command before its loop; an Item action is one iteration of the     *)
(* loop, and the last iteration also returns.  An uncaught exception ends  *)
(* the process where it stands: the filesystem stays as it is.             *)
(***************************************************************************)
EXTENDS Integers, Sequences, FiniteSets, TLC

VARIABLES live, files, info, pc, cmd, flags, argc, queue, err, ret, last

vars == <<live, files, info, pc, cmd, flags, argc, queue, err, ret, last>>

fsvars == <<live, files, info>>

\* The longest specification list of one invocation.
MaxBatch == 2

\* ------------------------------------------------------------------ text

Rev(s) == [i \in 1..Len(s) |-> s[Len(s) + 1 - i]]

IsWs(c) == c \in {" ", "\t", "\n"}

RECURSIVE LStrip(_)
LStrip(s) == IF s # <<>> /\ IsWs(Head(s)) THEN LStrip(Tail(s)) ELSE s

\* str.strip(): what ConfigParser does to a value it reads.
Strip(s) == Rev(LStrip(Rev(LStrip(s))))

RECURSIVE LStripDots(_)
LStripDots(s) == IF s # <<>> /\ Head(s) = "." THEN LStripDots(Tail(s)) ELSE s

\* The index of the first c in s, or 0.
RECURSIVE IndexFrom(_, _, _)
IndexFrom(s, c, i) ==
    IF i > Len(s) THEN 0
    ELSE IF s[i] = c THEN i
    ELSE IndexFrom(s, c, i + 1)

IndexOf(s, c) == IndexFrom(s, c, 1)

\* name.split('.')[0]
Stem(name) ==
    IF IndexOf(name, ".") = 0 THEN name
    ELSE SubSeq(name, 1, IndexOf(name, ".") - 1)

\* ''.join(PurePath.suffixes): nothing for a name ending in a dot, else the
\* name from its first dot on, leading dots not counted.
Suffixes(name) ==
    IF name # <<>> /\ name[Len(name)] = "." THEN <<>>
    ELSE LET n == LStripDots(name)
             i == IndexOf(n, ".")
         IN  IF i = 0 THEN <<>> ELSE SubSeq(n, i, Len(n))

Digits == <<"0", "1", "2", "3", "4", "5", "6", "7", "8", "9">>

\* str(n) for n >= 0
RECURSIVE Str(_)
Str(n) == IF n < 10 THEN <<Digits[n + 1]>> ELSE Str(n \div 10) \o <<Digits[(n % 10) + 1]>>

\* "y", "Y" and everything else a user may type at a prompt.
Answers == {<<"y">>, <<"Y">>, <<"n">>}

Lower(s) == [i \in 1..Len(s) |-> IF s[i] = "Y" THEN "y" ELSE s[i]]

ask_yes_no(answer) == Lower(answer) = <<"y">>

\* fnmatch of one path component: * and ? are wildcards.
RECURSIVE Match(_, _)
Match(pat, s) ==
    IF pat = <<>> THEN s = <<>>
    ELSE IF Head(pat) = "*"
         THEN Match(Tail(pat), s) \/ (s # <<>> /\ Match(pat, Tail(s)))
    ELSE IF s = <<>> THEN FALSE
    ELSE (Head(pat) = "?" \/ Head(pat) = Head(s)) /\ Match(Tail(pat), Tail(s))

\* ------------------------------------------------------------------ paths

IsPrefix(p, q) == Len(p) <= Len(q) /\ SubSeq(q, 1, Len(p)) = p

Parent(p) == SubSeq(p, 1, Len(p) - 1)

\* Path.name
BaseName(p) == IF p = <<>> THEN <<>> ELSE p[Len(p)]

\* str(path) of an absolute path
RECURSIVE PathStr(_)
PathStr(p) == IF p = <<>> THEN <<>> ELSE <<"/">> \o Head(p) \o PathStr(Tail(p))

\* The components of a path string: split at "/", empty components dropped.
RECURSIVE Components(_, _)
Components(s, cur) ==
    IF s = <<>> THEN (IF cur = <<>> THEN <<>> ELSE <<cur>>)
    ELSE IF Head(s) = "/"
         THEN (IF cur = <<>> THEN <<>> ELSE <<cur>>) \o Components(Tail(s), <<>>)
    ELSE Components(Tail(s), Append(cur, Head(s)))

\* The directory the process runs in.
CWD == << <<"w">> >>

\* Path(s), made absolute the way the OS resolves it.
ToPath(s) ==
    IF s # <<>> /\ Head(s) = "/" THEN Components(s, <<>>)
    ELSE CWD \o Components(s, <<>>)

\* ------------------------------------------------------------------ trees

Exists(t, p) == p \in DOMAIN t

IsDir(t, p) == p \in DOMAIN t /\ t[p] = "dir"

Under(t, p) == {q \in DOMAIN t : IsPrefix(p, q)}

Without(t, p) == [q \in DOMAIN t \ Under(t, p) |-> t[q]]

\* The subtree of t at p, planted at q.
Replant(t, p, q) ==
    LET dom == {q \o SubSeq(x, Len(p) + 1, Len(x)) : x \in Under(t, p)}
    IN  [y \in dom |-> t[p \o SubSeq(y, Len(q) + 1, Len(y))]]

\* The ancestors of q missing from t, as directories (os.makedirs).
MissingDirs(t, q) ==
    LET dom == {SubSeq(q, 1, k) : k \in 0..(Len(q) - 1)} \ DOMAIN t
    IN  [y \in dom |-> "dir"]

\* Is some ancestor of q a regular file?
BlockedByFile(t, q) ==
    \E k \in 0..(Len(q) - 1) :
        LET a == SubSeq(q, 1, k) IN a \in DOMAIN t /\ t[a] # "dir"

\* shutil.move(src, dst) of the entry at p of tree A to the path q of tree B.
\* An existing directory q receives the entry under its own name; os.rename
\* replaces an existing regular file; when the rename fails, a directory is
\* copied with copytree (which makes the missing parents) and a file with
\* copy2 (which does not).  Every failure is an OSError.
shutil_move(A, p, B, q) ==
    LET real == IF IsDir(B, q) THEN Append(q, BaseName(p)) ELSE q
        fail(e) == [ok |-> FALSE, exc |-> e, src |-> A, dst |-> B, at |-> real]
        done(B2) == [ok |-> TRUE, exc |-> "none", src |-> Without(A, p), dst |-> B2,
                     at |-> real]
    IN  IF IsDir(B, q) /\ Exists(B, real) THEN fail("shutil.Error")
        ELSE IF ~Exists(A, p) THEN fail("FileNotFoundError")
        ELSE IF Exists(B, real)
             THEN IF IsDir(A, p) THEN fail("FileExistsError")
                  ELSE done([B EXCEPT ![real] = A[p]])
        ELSE IF IsDir(B, Parent(real)) THEN done(Replant(A, p, real) @@ B)
        ELSE IF ~IsDir(A, p) THEN fail("FileNotFoundError")
        ELSE IF BlockedByFile(B, real) THEN fail("NotADirectoryError")
        ELSE done(Replant(A, p, real) @@ MissingDirs(B, real) @@ B)

\* ------------------------------------------------------------------ trash

\* The answer of `self._FILES / name`: an empty name is the files area itself.
FilesPath(name) == IF name = <<>> THEN <<>> ELSE <<name>>

FirstCount == 2

\* ensure_unqiue without its probe: the name as given, taken or not.
ensure_unqiue_first_name(F, I, name, suffixes, count) == name

\* ensure_unqiue with its counter one ahead: stem.3.suffixes is the first
\* name tried after the name itself.
RECURSIVE ensure_unqiue_from_three(_, _, _, _, _)
ensure_unqiue_from_three(F, I, name, suffixes, count) ==
    IF ~Exists(F, FilesPath(name)) /\ name \notin DOMAIN I THEN name
    ELSE ensure_unqiue_from_three(F, I, Stem(name) \o <<".">> \o Str(count + 1) \o suffixes,
                                  suffixes, count + 1)

\* Trash.ensure_unqiue: the first of name, stem.2.suffixes, stem.3.suffixes, ...
\* with neither a payload nor a record.
RECURSIVE ensure_unqiue(_, _, _, _, _)
ensure_unqiue(F, I, name, suffixes, count) ==
    IF ~Exists(F, FilesPath(name)) /\ name \notin DOMAIN I THEN name
    ELSE ensure_unqiue(F, I, Stem(name) \o <<".">> \o Str(count) \o suffixes,
                       suffixes, count + 1)

Missing == <<"m", "i", "s", "s", "i", "n", "g">>

\* BasicInterpolation of a value: %% is %, and any other % raises.
RECURSIVE Interpolate(_)
Interpolate(s) ==
    IF s = <<>> THEN [ok |-> TRUE, val |-> <<>>]
    ELSE IF Head(s) # "%"
         THEN LET r == Interpolate(Tail(s))
              IN  [ok |-> r.ok, val |-> <<Head(s)>> \o r.val]
    ELSE IF Len(s) >= 2 /\ s[2] = "%"
         THEN LET r == Interpolate(Tail(Tail(s)))
              IN  [ok |-> r.ok, val |-> <<"%">> \o r.val]
    ELSE [ok |-> FALSE, val |-> <<>>]

\* The text written for a trashed item (remove_trash's info.write_text).
InfoText(path, now) ==
    [header |-> TRUE, opts |-> [k \in {"Path", "DeletionDate"} |->
        IF k = "Path" THEN PathStr(path) ELSE now]]

\* SectionProxy.get(key, "missing") of a parsed record.
GetOpt(rec, k) ==
    IF k \notin DOMAIN rec.opts THEN [ok |-> TRUE, val |-> Missing]
    ELSE Interpolate(Strip(rec.opts[k]))

\* Trash.read_info: the record of a stored name as ConfigParser reads it.  An
\* absent or empty file has no section; options before any section header
\* raise MissingSectionHeaderError; a bad % raises InterpolationSyntaxError.
read_info(I, name) ==
    IF name \notin DOMAIN I \/ (~I[name].header /\ DOMAIN I[name].opts = {})
    THEN [raised |-> FALSE, Path |-> Missing, DeletionDate |-> Missing]
    ELSE IF ~I[name].header
    THEN [raised |-> TRUE, Path |-> Missing, DeletionDate |-> Missing]
    ELSE LET p == GetOpt(I[name], "Path")
             d == GetOpt(I[name], "DeletionDate")
         IN  [raised |-> ~p.ok \/ ~d.ok, Path |-> p.val, DeletionDate |-> d.val]

\* (self._INFO / f"{name}.trashinfo").unlink(missing_ok=True)
UnlinkInfo(I, name) == [n \in DOMAIN I \ {name} |-> I[n]]

\* Trash.perror: what it returns; with force it prints nothing and returns 0.
perror(fl) == IF fl.force THEN 0 ELSE 1

Printed(fl, msg) == IF fl.force THEN "none" ELSE msg

\* ------------------------------------------------------------------ state

Flags == [verbose : BOOLEAN, force : BOOLEAN, recursive : BOOLEAN, interactive : BOOLEAN]

\* datetime.now(), formatted: the texts a record's DeletionDate can get.
Times == {<<"t", "1">>}

\* What the last step did: the command, the item, how it ended, the message
\* printed on stderr, the line vprint printed, the prompts asked, the stored
\* name a remove chose, the destination a restore read, and how restore's
\* nested remove ended.
Ev(op, item, outcome, printed, said, asked, stored, dest, sub) ==
    [op |-> op, item |-> item, outcome |-> outcome, printed |-> printed,
     said |-> said, asked |-> asked, stored |-> stored, dest |-> dest, sub |-> sub]

NoEv == Ev("none", <<>>, "none", "none", "none", <<>>, <<>>, <<>>, "none")

IntRet(n) == [kind |-> "int", val |-> n]

NoneRet == [kind |-> "none", val |-> 0]

\* An uncaught exception: the interpreter prints a traceback and exits.
RaisedRet == [kind |-> "raised", val |-> 1]

\* The stored names: the entries of the files area.
Stored(F) == {p[1] : p \in {q \in DOMAIN F : Len(q) = 1}}

\* Trash.vprint
vprint(fl, line) == IF fl.verbose THEN line ELSE "none"

\* ------------------------------------------------------------------ remove

\* remove_trash without its check of directories.
RefusesDir_keeps_going(is_dir, fl) == FALSE

\* remove_trash's `if is_dir and not self.recursive`
RefusesDir(is_dir, fl) == is_dir /\ ~fl.recursive

\* One iteration of remove_trash's loop on `file`, an absolute live path.
remove_item(L, F, I, file, fl, answer, now) ==
    LET asked == IF fl.interactive THEN <<"Trash">> ELSE <<>>
        name == BaseName(file)
        stored == ensure_unqiue(F, I, name, Suffixes(name), FirstCount)
        mv == shutil_move(L, file, F, FilesPath(stored))
        same(e, out, msg) ==
            [live |-> L, files |-> F, info |-> I, err |-> e,
             ev |-> Ev("remove", file, out, msg, "none", asked, <<>>, <<>>, "none")]
    IN  IF fl.interactive /\ ~ask_yes_no(answer) THEN same(0, "declined", "none")
        ELSE IF RefusesDir(IsDir(L, file), fl)
             THEN same(perror(fl), "IsADirectoryError", Printed(fl, "Is a directory"))
        ELSE IF ~mv.ok THEN same(perror(fl), mv.exc, Printed(fl, "OSError"))
        ELSE [live |-> mv.src, files |-> mv.dst,
              info |-> (stored :> InfoText(file, now)) @@ I, err |-> 0,
              ev |-> Ev("remove", file, "trashed", "none", vprint(fl, "Trashed"),
                        asked, stored, <<>>, "none")]

\* ------------------------------------------------------------------ empty

\* One iteration of empty_trash's loop.  The item is a path of the files area
\* (from iterdir) or, for a specification the caller gave, the path as the OS
\* resolves it: against the working directory.
empty_item(L, F, I, item, fl, answer) ==
    LET asked == IF fl.interactive THEN <<"Permanently delete">> ELSE <<>>
        T == IF item.area = "live" THEN L ELSE F
        p == item.path
        same(e, out, msg) ==
            [live |-> L, files |-> F, info |-> I, err |-> e,
             ev |-> Ev("empty", p, out, msg, "none", asked, <<>>, <<>>, "none")]
        gone == Without(T, p)
    IN  IF fl.interactive /\ ~ask_yes_no(answer) THEN same(0, "declined", "none")
        ELSE IF ~(IsDir(T, p) /\ fl.recursive) /\ ~Exists(T, p)
             THEN same(perror(fl), "FileNotFoundError", Printed(fl, "OSError"))
        ELSE IF ~(IsDir(T, p) /\ fl.recursive) /\ IsDir(T, p)
             THEN same(perror(fl), "IsADirectoryError", Printed(fl, "OSError"))
        ELSE [live |-> IF item.area = "live" THEN gone ELSE L,
              files |-> IF item.area = "live" THEN F ELSE gone,
              info |-> UnlinkInfo(I, BaseName(p)), err |-> 0,
              ev |-> Ev("empty", p, "deleted", "none", vprint(fl, "Removed"),
                        asked, <<>>, <<>>, "none")]

\* ------------------------------------------------------------------ restore

\* restore_trash without its refusal of an existing destination.
Conflict_overwrites(fl) == FALSE

\* restore_trash's `if not self.force and not self.interactive`
Conflict(fl) == ~fl.force /\ ~fl.interactive

\* One iteration of restore_trash's loop on `file`, a path of the files area.
\* `raised` is an exception nothing catches.
restore_item(L, F, I, file, fl, answer, answer2, now) ==
    LET meta == read_info(I, BaseName(file))
        dest == ToPath(meta.Path)
        sub == remove_item(L, F, I, dest, fl, answer2, now)
        called == Exists(L, dest)
        L2 == IF called THEN sub.live ELSE L
        F2 == IF called THEN sub.files ELSE F
        I2 == IF called THEN sub.info ELSE I
        mv == shutil_move(F2, file, L2, dest)
        ask1 == IF fl.interactive THEN <<"Overwrite">> ELSE <<>>
        asked2 == IF called THEN ask1 \o sub.ev.asked ELSE <<>>
        subout == IF called THEN sub.ev.outcome ELSE "none"
        substored == IF called THEN sub.ev.stored ELSE <<>>
        same(e, out, msg, asked, d, raised) ==
            [live |-> L, files |-> F, info |-> I, err |-> e, raised |-> raised,
             ev |-> Ev("restore", file, out, msg, "none", asked, <<>>, d, "none")]
    IN  IF ~Exists(F, file)
        THEN same(perror(fl), "absent", Printed(fl, "does not exist in trash"),
                  <<>>, <<>>, FALSE)
        ELSE IF IsDir(F, file) /\ ~fl.recursive
        THEN same(perror(fl), "isdir", Printed(fl, "Is a directory"), <<>>, <<>>, FALSE)
        ELSE IF meta.raised
        THEN same(0, "configparser.Error", "none", <<>>, <<>>, TRUE)
        ELSE IF meta.Path = Missing
        THEN same(perror(fl), "nometa", Printed(fl, "Missing meta data"),
                  <<>>, <<>>, FALSE)
        ELSE IF called /\ Conflict(fl)
        THEN same(perror(fl), "exists", Printed(fl, "already exists"), <<>>, dest, FALSE)
        ELSE IF called /\ fl.interactive /\ ~ask_yes_no(answer)
        THEN same(0, "declined", "none", ask1, dest, FALSE)
        ELSE IF called /\ sub.err # 0
        THEN [live |-> L2, files |-> F2, info |-> I2, err |-> 0, raised |-> FALSE,
              ev |-> Ev("restore", file, "aborted", sub.ev.printed, "none", asked2,
                        substored, dest, subout)]
        ELSE IF ~mv.ok
        THEN [live |-> L2, files |-> F2, info |-> I2, err |-> 0, raised |-> TRUE,
              ev |-> Ev("restore", file, mv.exc, "none", "none", asked2,
                        substored, dest, subout)]
        ELSE [live |-> mv.dst, files |-> mv.src,
              info |-> UnlinkInfo(I2, BaseName(file)), err |-> 0, raised |-> FALSE,
              ev |-> Ev("restore", file, "restored", "none", vprint(fl, "Restored"),
                        asked2, substored, dest, subout)]

\* ------------------------------------------------------------------ cat, list

\* A read that takes away what it reads.
AfterRead_consumed(t, k) == [x \in DOMAIN t \ {k} |-> t[x]]

\* The files area after cat_file's read_text of the entry k, and the info
\* area after read_info's ConfigParser.read of the record k: a read leaves
\* them as they are, whether k is there or not.
AfterRead(t, k) == t

\* One iteration of cat_trash's loop: cat_dir reads every file below a
\* directory, cat_file reads one file and fails on a directory or nothing.
cat_item(F, file, fl) ==
    LET ev(e, out, msg, said) ==
            [err |-> e,
             ev |-> Ev("cat", file, out, msg, said, <<>>, <<>>, <<>>, "none")]
    IN  IF IsDir(F, file) /\ fl.recursive THEN ev(0, "printed", "none", vprint(fl, "Directory"))
        ELSE IF ~Exists(F, file)
             THEN ev(perror(fl), "FileNotFoundError", Printed(fl, "OSError"), "none")
        ELSE IF IsDir(F, file)
             THEN ev(perror(fl), "IsADirectoryError", Printed(fl, "OSError"), "none")
        ELSE ev(0, "printed", "none", vprint(fl, "File"))

\* One iteration of list_trash's loop.
list_item(F, I, file, fl) ==
    LET meta == read_info(I, BaseName(file))
        ev(e, out, msg, raised) ==
            [err |-> e, raised |-> raised,
             ev |-> Ev("list", file, out, msg, "none", <<>>, <<>>, <<>>, "none")]
    IN  IF ~Exists(F, file)
        THEN ev(perror(fl), "absent", Printed(fl, "does not exist"), FALSE)
        ELSE IF meta.raised THEN ev(0, "configparser.Error", "none", TRUE)
        ELSE ev(0, "listed", "none", FALSE)

\* ------------------------------------------------------------------ resolution

\* Path.glob of a relative pattern below the files area: the entries whose
\* components match the pattern's, one by one.
Glob(F, pat) ==
    {p \in DOMAIN F : Len(p) = Len(pat) /\ \A i \in 1..Len(pat) : Match(pat[i], p[i])}

\* The orders in which a directory scan may yield the entries S.
Orders(S) ==
    {q \in [1..Cardinality(S) -> S] : \A i, j \in 1..Cardinality(S) : q[i] = q[j] => i = j}

\* Trash.relative_files of a non-empty list: each pattern gives its matches,
\* or itself when it has none.
RECURSIVE Expand(_, _)
Expand(F, specs) ==
    IF specs = <<>> THEN {<<>>}
    ELSE LET hits == Glob(F, Head(specs))
             first == IF hits = {} THEN {<<Head(specs)>>} ELSE Orders(hits)
         IN  {a \o b : a \in first, b \in Expand(F, Tail(specs))}

\* Trash.relative_files: the lists it may return.
relative_files(F, specs, fillEmpty) ==
    IF specs = <<>>
    THEN IF fillEmpty THEN Orders({<<n>> : n \in Stored(F)}) ELSE {<<>>}
    ELSE Expand(F, specs)

\* The characters of the model in the order of their codes.
CharOrder == <<" ", "%", "*", ".", "/", "0", "1", "2", "3", "4", "5", "6", "7", "8",
               "9", "?", "Y", "a", "d", "g", "i", "k", "m", "n", "p", "s", "t", "w", "y">>

Ord(c) == IndexOf(CharOrder, c)

\* a < b for two strings
RECURSIVE StrLess(_, _)
StrLess(a, b) ==
    IF b = <<>> THEN FALSE
    ELSE IF a = <<>> THEN TRUE
    ELSE IF Head(a) # Head(b) THEN Ord(Head(a)) < Ord(Head(b))
    ELSE StrLess(Tail(a), Tail(b))

\* a < b for two paths: their parts compared in turn
RECURSIVE PathLess(_, _)
PathLess(a, b) ==
    IF b = <<>> THEN FALSE
    ELSE IF a = <<>> THEN TRUE
    ELSE IF Head(a) # Head(b) THEN StrLess(Head(a), Head(b))
    ELSE PathLess(Tail(a), Tail(b))

RECURSIVE Insert(_, _)
Insert(x, s) ==
    IF s = <<>> THEN <<x>>
    ELSE IF PathLess(x, Head(s)) THEN <<x>> \o s
    ELSE <<Head(s)>> \o Insert(x, Tail(s))

\* list.sort() of a list of paths
RECURSIVE Sort(_)
Sort(s) == IF s = <<>> THEN <<>> ELSE Insert(Head(s), Sort(Tail(s)))

\* ------------------------------------------------------------------ worlds

n_w == <<"w">>
n_d == <<"d">>
n_at == <<"a", ".", "t">>
n_a2t == <<"a", ".", "2", ".", "t">>
n_a3t == <<"a", ".", "3", ".", "t">>
n_pct == <<"p", "%">>
n_m == <<"m">>
n_k == <<"k">>
n_star == <<"*">>

Root == <<>> :> "dir"

NoInfo == [n \in {} |-> 0]

T1 == <<"t", "1">>

\* Two files of one name in two directories, and an empty trash.
World1 ==
    [live |-> Root @@ (<<n_w>> :> "dir") @@ (<<n_w, n_at>> :> "c1")
              @@ (<<n_w, n_d>> :> "dir") @@ (<<n_w, n_d, n_at>> :> "c2"),
     files |-> Root,
     info |-> NoInfo]

\* A trash written by an earlier run, after which a.t was made anew.
World2 ==
    [live |-> Root @@ (<<n_w>> :> "dir") @@ (<<n_w, n_at>> :> "c3"),
     files |-> Root @@ (<<n_at>> :> "c1"),
     info |-> (n_at :> InfoText(<<n_w, n_at>>, T1))]

\* A trashed file d, after which a directory d was made in its place.
World3 ==
    [live |-> Root @@ (<<n_w>> :> "dir") @@ (<<n_w, n_d>> :> "dir"),
     files |-> Root @@ (<<n_d>> :> "c2"),
     info |-> (n_d :> InfoText(<<n_w, n_d>>, T1))]

\* A file with a % in its name.
World4 ==
    [live |-> Root @@ (<<n_w>> :> "dir") @@ (<<n_w, n_pct>> :> "c1"),
     files |-> Root,
     info |-> NoInfo]

\* A trash with an item without a record and an item whose record has no
\* Path.
World5 ==
    [live |-> Root @@ (<<n_w>> :> "dir"),
     files |-> Root @@ (<<n_m>> :> "c2") @@ (<<n_k>> :> "c3"),
     info |-> (n_k :> [header |-> TRUE, opts |-> ("DeletionDate" :> T1)])]

\* The trash after a.t was removed, made anew and removed again, after which
\* a.t was made anew.
World6 ==
    [live |-> Root @@ (<<n_w>> :> "dir") @@ (<<n_w, n_at>> :> "c3"),
     files |-> Root @@ (<<n_at>> :> "c1") @@ (<<n_a2t>> :> "c2"),
     info |-> (n_at :> InfoText(<<n_w, n_at>>, T1))
              @@ (n_a2t :> InfoText(<<n_w, n_at>>, T1))]

Worlds == {World1, World2, World3, World4, World5, World6}

\* The specifications a caller may give to remove: the entries below the
\* working directory by their relative paths.
LiveSpecs ==
    {SubSeq(p, Len(CWD) + 1, Len(p)) : p \in {q \in DOMAIN live : IsPrefix(CWD, q) /\ q # CWD}}

\* The specifications a caller may give to the commands on the trash: the
\* stored names and a wildcard.
TrashSpecs == {<<n>> : n \in Stored(files)} \cup {<<n_star>>}

Batches(S) == UNION {[1..n -> S] : n \in 0..MaxBatch}

LiveItems(specs) == [i \in 1..Len(specs) |-> [area |-> "live", path |-> CWD \o specs[i]]]

TrashItems(paths) == [i \in 1..Len(paths) |-> [area |-> "trash", path |-> paths[i]]]

\* ------------------------------------------------------------------ actions

StartFlags == [verbose |-> FALSE, force |-> FALSE, recursive |-> FALSE, interactive |-> FALSE]

\* Trash.__post_init__ finds the trash as earlier runs left it.
Init ==
    /\ \E w \in Worlds : live = w.live /\ files = w.files /\ info = w.info
    /\ pc = "idle"
    /\ cmd = "none"
    /\ flags = StartFlags
    /\ argc = 0
    /\ queue = <<>>
    /\ err = 0
    /\ ret = NoneRet
    /\ last = NoEv

\* A command that returns before its loop.
Return(c, fl, n, r, ev) ==
    /\ cmd' = c /\ flags' = fl /\ argc' = n
    /\ pc' = "done" /\ queue' = <<>> /\ err' = 0 /\ ret' = r /\ last' = ev
    /\ UNCHANGED fsvars

\* A command that enters its loop with the items q, or returns err when
\* there are none.
Enter(c, fl, n, q, ev) ==
    /\ cmd' = c /\ flags' = fl /\ argc' = n
    /\ queue' = q /\ err' = 0 /\ last' = ev
    /\ IF q = <<>> THEN pc' = "done" /\ ret' = IntRet(0)
       ELSE pc' = "loop" /\ ret' = NoneRet
    /\ UNCHANGED fsvars

CallEv(c, out, msg, asked) == Ev(c, <<>>, out, msg, "none", asked, <<>>, <<>>, "none")

\* The rest of an iteration: count, go on to the next item, or return after
\* the last one; an uncaught exception ends the loop where it stands.
Step(e, raised, ev) ==
    /\ err' = err + e
    /\ last' = ev
    /\ queue' = Tail(queue)
    /\ IF raised THEN pc' = "done" /\ ret' = RaisedRet
       ELSE IF Tail(queue) = <<>> THEN pc' = "done" /\ ret' = IntRet(err + e)
       ELSE pc' = "loop" /\ ret' = ret
    /\ UNCHANGED <<cmd, flags, argc>>

CallRemove ==
    /\ pc = "idle"
    /\ \E fl \in Flags, specs \in Batches(LiveSpecs) :
        IF specs = <<>>
        THEN Return("remove", fl, 0, IntRet(perror(fl)),
                    CallEv("remove", "noinput", Printed(fl, "No files to remove"), <<>>))
        ELSE Enter("remove", fl, Len(specs), LiveItems(specs),
                   CallEv("remove", "call", "none", <<>>))

RemoveItem ==
    /\ pc = "loop" /\ cmd = "remove"
    /\ \E answer \in Answers, now \in Times :
        \E r \in {remove_item(live, files, info, Head(queue).path, flags, answer, now)} :
            /\ live' = r.live /\ files' = r.files /\ info' = r.info
            /\ Step(r.err, FALSE, r.ev)

CallEmpty ==
    /\ pc = "idle"
    /\ \E fl \in Flags, specs \in Batches(TrashSpecs), answer \in Answers :
        IF specs = <<>> /\ ~fl.force
        THEN IF ~ask_yes_no(answer)
             THEN Return("empty", fl, 0, IntRet(0),
                         CallEv("empty", "declined", "none", <<"Empty all">>))
             ELSE \E q \in relative_files(files, specs, TRUE) :
                     Enter("empty", fl, 0, TrashItems(q),
                           CallEv("empty", "call", "none", <<"Empty all">>))
        ELSE Enter("empty", fl, Len(specs), LiveItems(specs),
                   CallEv("empty", "call", "none", <<>>))

EmptyItem ==
    /\ pc = "loop" /\ cmd = "empty"
    /\ \E answer \in Answers :
        \E r \in {empty_item(live, files, info, Head(queue), flags, answer)} :
            /\ live' = r.live /\ files' = r.files /\ info' = r.info
            /\ Step(r.err, FALSE, r.ev)

CallRestore ==
    /\ pc = "idle"
    /\ \E fl \in Flags, specs \in Batches(TrashSpecs) :
        IF specs = <<>>
        THEN Return("restore", fl, 0, IntRet(perror(fl)),
                    CallEv("restore", "noinput", Printed(fl, "No files to restore"), <<>>))
        ELSE \E q \in relative_files(files, specs, FALSE) :
                Enter("restore", fl, Len(specs), TrashItems(q),
                      CallEv("restore", "call", "none", <<>>))

RestoreItem ==
    /\ pc = "loop" /\ cmd = "restore"
    /\ \E answer \in Answers, answer2 \in Answers, now \in Times :
        \E r \in {restore_item(live, files, info, Head(queue).path, flags,
                               answer, answer2, now)} :
            /\ live' = r.live /\ files' = r.files /\ info' = r.info
            /\ Step(r.err, r.raised, r.ev)

CallCat ==
    /\ pc = "idle"
    /\ \E fl \in Flags, specs \in Batches(TrashSpecs) :
        IF specs = <<>>
        THEN Return("cat", fl, 0, IntRet(perror(fl)),
                    CallEv("cat", "noinput", Printed(fl, "No files to cat"), <<>>))
        ELSE \E q \in relative_files(files, specs, FALSE) :
                Enter("cat", fl, Len(specs), TrashItems(q),
                      CallEv("cat", "call", "none", <<>>))

CatItem ==
    /\ pc = "loop" /\ cmd = "cat"
    /\ \E r \in {cat_item(files, Head(queue).path, flags)} : Step(r.err, FALSE, r.ev)
    /\ files' = AfterRead(files, Head(queue).path)
    /\ UNCHANGED <<live, info>>

CallList ==
    /\ pc = "idle"
    /\ \E fl \in Flags, specs \in Batches(TrashSpecs) :
        \E q \in relative_files(files, specs, TRUE) :
            IF q = <<>>
            THEN Return("list", fl, Len(specs), NoneRet,
                        CallEv("list", "nothing", "none", <<>>))
            ELSE Enter("list", fl, Len(specs), TrashItems(Sort(q)),
                       CallEv("list", "call", "none", <<>>))

ListItem ==
    /\ pc = "loop" /\ cmd = "list"
    /\ \E r \in {list_item(files, info, Head(queue).path, flags)} :
        Step(r.err, r.raised, r.ev)
    /\ info' = AfterRead(info, BaseName(Head(queue).path))
    /\ UNCHANGED <<live, files>>

\* Trash.run with a command name that is none of the five: bad_command.
CallBad ==
    /\ pc = "idle"
    /\ \E fl \in Flags, specs \in Batches(TrashSpecs) :
        Return("unknown", fl, Len(specs), IntRet(perror(fl)),
               CallEv("unknown", "badcommand", Printed(fl, "Unknown command"), <<>>))

\* cli.main returns and the process ends; the trash stays for the next run.
Exit ==
    /\ pc = "done"
    /\ pc' = "idle" /\ cmd' = "none" /\ flags' = StartFlags /\ argc' = 0
    /\ queue' = <<>> /\ err' = 0 /\ ret' = NoneRet /\ last' = NoEv
    /\ UNCHANGED fsvars

Next ==
    \/ CallRemove
    \/ RemoveItem
    \/ CallEmpty
    \/ EmptyItem
    \/ CallRestore
    \/ RestoreItem
    \/ CallCat
    \/ CatItem
    \/ CallList
    \/ ListItem
    \/ CallBad
    \/ Exit

Spec == Init /\ [][Next]_vars

\* ------------------------------------------------------------------ properties

\* Every payload entry has a record and every record a payload entry.
Paired == Stored(files) = DOMAIN info

\* The item the loop is at, and the step that processes it.
Item == Head(queue).path

ItemStep(c) == pc = "loop" /\ cmd = c /\ queue' = Tail(queue)

\* The paths of t below p, p included, with their nodes, as a tree at q.
SameAt(t, p, u, q) ==
    /\ Under(u, q) = DOMAIN Replant(t, p, q)
    /\ \A y \in Under(u, q) : u[y] = Replant(t, p, q)[y]

\* Every entry of t is in u as it was.
Kept(t, u) == \A x \in DOMAIN t : x \in DOMAIN u /\ u[x] = t[x]

KeptInfo(I, J) == \A n \in DOMAIN I : n \in DOMAIN J /\ J[n] = I[n]

\* C1: no step of any command takes a trash in which the payload entries and
\* the records correspond one to one to a trash in which they do not.
C1_PairingKept == [][Paired => Paired']_vars

\* C2: a restore step on an item as remove stored it (its record is the text
\* remove writes for a path P, nothing is at P and P's directory is there,
\* and the item is a file, or a directory with recursive set) puts the payload
\* at P as it is in the trash, deletes the payload entry and the record, and
\* changes nothing else.
C2_RoundTrip ==
    [][(/\ ItemStep("restore")
        /\ Len(Item) = 1 /\ Exists(files, Item)
        /\ ~(IsDir(files, Item) /\ ~flags.recursive)
        /\ BaseName(Item) \in DOMAIN info
        /\ \E P \in {CWD \o <<BaseName(Item)>>, CWD \o <<n_d, BaseName(Item)>>} :
              /\ \E now \in Times : info[BaseName(Item)] = InfoText(P, now)
              /\ ~Exists(live, P) /\ IsDir(live, Parent(P)))
       => \E P \in {CWD \o <<BaseName(Item)>>, CWD \o <<n_d, BaseName(Item)>>} :
              /\ SameAt(files, Item, live', P)
              /\ Kept(live, live') /\ DOMAIN live' = DOMAIN live \cup Under(live', P)
              /\ files' = Without(files, Item)
              /\ info' = UnlinkInfo(info, BaseName(Item))]_vars

\* C3: a step of an empty call with specifications deletes and changes
\* nothing outside the trash.
C3_EmptyConfined == [][(ItemStep("empty") /\ argc > 0) => live' = live]_vars

\* C4: when empty with force and no specification returns, it has asked
\* nothing, and what is left in the files area or the info area is a
\* directory that recursive was not set for.
C4_EmptyForceAll ==
    (pc = "done" /\ cmd = "empty" /\ flags.force /\ argc = 0)
        => /\ last.asked = <<>>
           /\ \A n \in Stored(files) \cup DOMAIN info :
                  IsDir(files, <<n>>) /\ ~flags.recursive

\* C5: a remove step that stores an item stores it under a name that had
\* neither a payload entry nor a record, with the payload as it was at the
\* path removed and a record whose Path is that path, and leaves every other
\* entry and record as it was; the name is the item's own when that is free,
\* and a.2.t for an a.t when a.t is taken and a.2.t is free.  The remove
\* nested in a restore chooses its name the same way.
C5_CollisionFree ==
    [][/\ (ItemStep("remove") /\ last'.outcome = "trashed")
          => LET P == Item
                 n == last'.stored
                 taken == Stored(files) \cup DOMAIN info
             IN  /\ n \notin taken
                 /\ SameAt(live, P, files', <<n>>)
                 /\ Kept(files, files') /\ KeptInfo(info, info')
                 /\ Stored(files') = Stored(files) \cup {n}
                 /\ DOMAIN info' = DOMAIN info \cup {n}
                 /\ info'[n] \in {InfoText(P, now) : now \in Times}
                 /\ read_info(info', n).Path = PathStr(P) \/ read_info(info', n).raised
                 /\ (BaseName(P) \notin taken => n = BaseName(P))
                 /\ (BaseName(P) = n_at /\ n_at \in taken /\ n_a2t \notin taken
                        => n = n_a2t)
       /\ (ItemStep("restore") /\ last'.sub = "trashed")
          => LET n == last'.stored
             IN  /\ n \notin Stored(files) \cup DOMAIN info
                 /\ n \in DOMAIN info'
                 /\ info'[n] \in {InfoText(last'.dest, now) : now \in Times}]_vars

\* C5, reached: a.t of the working directory and a.t of d are both in the
\* trash, as a.t and a.2.t, each with the record of its own path.
C5_Witness ==
    /\ last.op = "remove" /\ last.outcome = "trashed" /\ last.stored = n_a2t
    /\ Exists(files, <<n_at>>) /\ files[<<n_at>>] = "c1"
    /\ Exists(files, <<n_a2t>>) /\ files[<<n_a2t>>] = "c2"
    /\ read_info(info, n_at).Path = PathStr(<<n_w, n_at>>)
    /\ read_info(info, n_a2t).Path = PathStr(<<n_w, n_d, n_at>>)

\* The item at hand is in the trash and its record names a path that exists.
DestOf == ToPath(read_info(info, BaseName(Item)).Path)

HasDest ==
    /\ Exists(files, Item)
    /\ ~read_info(info, BaseName(Item)).raised
    /\ read_info(info, BaseName(Item)).Path # Missing
    /\ Exists(live, DestOf)

\* restore_trash refuses a directory without recursive before it reads a record.
Restorable == ~(IsDir(files, Item) /\ ~flags.recursive)

Refused ==
    /\ last'.printed = "already exists"
    /\ err' = err + 1
    /\ live' = live /\ files' = files /\ info' = info

\* C6 as claimed: a restore step on any item whose recorded path exists, with
\* neither force nor interactive, reports "already exists", counts one
\* failure and changes nothing.
C6_AnyItem ==
    [][(ItemStep("restore") /\ HasDest /\ ~flags.force /\ ~flags.interactive)
       => Refused]_vars

\* C6, amended: a restore step on an item that is a regular file, or a
\* directory with recursive set, and whose recorded path exists, with neither
\* force nor interactive, reports "already exists", counts one failure and
\* changes nothing.
C6_AlreadyExists ==
    [][(ItemStep("restore") /\ HasDest /\ Restorable
            /\ ~flags.force /\ ~flags.interactive)
       => Refused]_vars

\* C6, reached: a restore has just refused an item that is still in the
\* trash with its record, and whose destination is still there.
C6_Witness ==
    /\ last.op = "restore" /\ last.outcome = "exists"
    /\ last.printed = "already exists"
    /\ ~flags.force /\ ~flags.interactive
    /\ Exists(files, last.item) /\ BaseName(last.item) \in DOMAIN info
    /\ Exists(live, last.dest)
    /\ err >= 1

\* C7: a restore step whose nested remove of the destination failed changes
\* nothing (destination, payload and record stay) and the loop goes on.
C7_AbortOnFailure ==
    [][(ItemStep("restore") /\ last'.sub \notin {"none", "trashed", "declined"})
       => /\ live' = live /\ files' = files /\ info' = info
          /\ ret'.kind # "raised"]_vars

\* C8: a restore step that has to overwrite (the destination exists, and force
\* is set or the overwrite prompt was confirmed) ends with the old
\* destination in the trash under a new name, with a record whose Path is the
\* destination, with the restored item exactly at the destination, and with
\* the item's payload entry and record gone.
C8_TrashThenPlace ==
    [][(/\ ItemStep("restore") /\ HasDest /\ Restorable
        /\ (flags.force \/ flags.interactive)
        /\ last'.outcome # "declined")
       => LET d == DestOf
              s == last'.stored
          IN  /\ last'.sub = "trashed"
              /\ s \notin Stored(files) \cup DOMAIN info
              /\ SameAt(live, d, files', <<s>>)
              /\ s \in DOMAIN info'
              /\ info'[s] \in {InfoText(d, now) : now \in Times}
              /\ SameAt(files, Item, live', d)
              /\ ~Exists(files', Item)
              /\ BaseName(Item) \notin DOMAIN info']_vars

\* C9: a remove step on a directory with recursive off, unless the prompt
\* was declined, ends with the error "Is a directory" (printed and counted
\* unless force is set) and leaves the directory, the files area and the
\* info area as they were.
C9_DirNeedsRecursive ==
    [][(/\ ItemStep("remove") /\ IsDir(live, Item) /\ ~flags.recursive
        /\ last'.outcome # "declined")
       => /\ last'.outcome = "IsADirectoryError"
          /\ last'.printed = Printed(flags, "Is a directory")
          /\ err' = err + perror(flags)
          /\ live' = live /\ files' = files /\ info' = info]_vars

\* C9, reached: remove has just failed on a directory, which is in its place.
C9_Witness ==
    /\ last.op = "remove" /\ last.outcome = "IsADirectoryError"
    /\ ~flags.recursive
    /\ IsDir(live, last.item)
    /\ Under(live, last.item) # {last.item}

\* C10: a remove, empty, cat or restore call ends by returning a count, with
\* every item of its batch attempted.  (Left aside here: an exception from
\* reading a record, and a restore step that made a nested remove; what is
\* left is a call whose last step failed, if at all, in the filesystem.)
C10_BatchGoesOn ==
    (pc = "done" /\ cmd \in {"remove", "empty", "cat", "restore"}
            /\ last.outcome # "configparser.Error" /\ last.sub = "none")
        => (ret.kind = "int" /\ queue = <<>>)

\* The outcomes of an iteration that did not fail: the item was processed, or
\* its prompt was declined.
NotFailed == {"trashed", "deleted", "restored", "printed", "declined"}

\* C11: with force off, every step of remove, empty, restore and cat that
\* goes on to return a count or to the next item adds one to the count when
\* the item failed to be processed and nothing otherwise; a restore item left
\* in the trash because the remove of its destination failed is a failure.
C11_FailureCount ==
    [][(/\ pc = "loop" /\ cmd \in {"remove", "empty", "restore", "cat"}
        /\ queue' = Tail(queue)
        /\ ~flags.force /\ ret'.kind # "raised")
       => /\ err' = err + (IF last'.outcome \in NotFailed THEN 0 ELSE 1)
          /\ (ret'.kind = "int" => ret'.val = err')]_vars

\* C12: with force set, every step of remove, empty, restore and cat that
\* goes on to return a count or to the next item still adds one to the count
\* when the item failed to be processed, as it does with force off.
C12_ForceStillCounts ==
    [][(/\ pc = "loop" /\ cmd \in {"remove", "empty", "restore", "cat"}
        /\ queue' = Tail(queue)
        /\ flags.force /\ ret'.kind # "raised")
       => err' = err + (IF last'.outcome \in NotFailed THEN 0 ELSE 1)]_vars

\* The call at hand was refused for its input: no specification, or a
\* command name that is none of the five.
InputError ==
    /\ pc = "done"
    /\ \/ cmd \in {"remove", "restore", "cat"} /\ argc = 0
       \/ cmd = "unknown"

\* C13: a remove, restore or cat call without specifications, and a call of
\* an unknown command, under any flags, has printed its error and returns
\* exactly 1 without having entered a loop.
C13_InputErrors ==
    InputError
        => /\ last.printed \in {"No files to remove", "No files to restore",
                                "No files to cat", "Unknown command"}
           /\ ret = IntRet(1)
           /\ last.outcome \in {"noinput", "badcommand"}

\* C13: such a call changes neither the live tree nor the trash.
C13_InputErrorsFrame ==
    [][(pc = "idle" /\ InputError') => (live' = live /\ files' = files /\ info' = info)]_vars

\* The item at hand is in the trash and its record is absent or has no Path.
NoPath ==
    /\ Exists(files, Item)
    /\ ~read_info(info, BaseName(Item)).raised
    /\ read_info(info, BaseName(Item)).Path = Missing

\* C14: a restore step on an item whose record is absent or has no Path
\* reports the missing meta data, counts one failure, leaves the live tree and
\* the trash as they were, and the loop goes on to the items that are left.
C14_MissingMetadata ==
    [][(ItemStep("restore") /\ NoPath)
       => /\ last'.printed = "Missing meta data"
          /\ err' = err + 1
          /\ live' = live /\ files' = files /\ info' = info
          /\ ret'.kind # "raised"
          /\ (Tail(queue) # <<>> => pc' = "loop")]_vars

\* How many regular files of the tree t hold the content c.
Copies(t, c) == Cardinality({p \in DOMAIN t : t[p] = c})

\* The contents regular files hold, in the live tree or in the files area.
Contents ==
    ({live[p] : p \in DOMAIN live} \cup {files[p] : p \in DOMAIN files}) \ {"dir"}

\* C15: a step of remove or restore, whatever the flags, the answers and the
\* outcome, destroys and duplicates nothing: each file content is held by as
\* many files of the live tree and the files area together after the step as
\* before it.
C15_NothingLost ==
    [][(pc = "loop" /\ cmd \in {"remove", "restore"} /\ queue' = Tail(queue))
       => \A c \in Contents :
              Copies(live', c) + Copies(files', c) = Copies(live, c) + Copies(files, c)]_vars

\* The name n has neither a payload entry nor a record.
Free(F, I, n) == ~Exists(F, FilesPath(n)) /\ n \notin DOMAIN I

\* The stem of name, a dot, k, and the suffixes of name.
Numbered(name, k) == Stem(name) \o <<".">> \o Str(k) \o Suffixes(name)

\* n is the name itself when that is free, and else the numbered name of the
\* smallest k from 2 on that is free.
Resolved(F, I, name, n) ==
    IF Free(F, I, name) THEN n = name
    ELSE \E k \in 2..(Cardinality(Stored(F) \cup DOMAIN I) + 2) :
            /\ n = Numbered(name, k)
            /\ Free(F, I, n)
            /\ \A j \in 2..(k - 1) : ~Free(F, I, Numbered(name, j))

C17_DeclinedNoEffect ==
    [][/\ (/\ pc = "loop" /\ cmd \in {"remove", "empty", "restore"}
           /\ queue' = Tail(queue)
           /\ (last'.outcome = "declined" \/ last'.sub = "declined"))
          => (live' = live /\ files' = files /\ info' = info /\ err' = err)
       /\ (pc = "idle" /\ cmd' = "empty" /\ last'.outcome = "declined")
          => (live' = live /\ files' = files /\ info' = info /\ ret' = IntRet(0))]_vars

\* What reading the record of the stored name n is claimed to give: the
\* sentinel for both keys when there is no record or no Path in it, the two
\* values of the record otherwise, and no exception.
SentinelRead(I, n) ==
    LET r == read_info(I, n)
    IN  /\ ~r.raised
        /\ IF n \notin DOMAIN I \/ "Path" \notin DOMAIN I[n].opts
           THEN r.Path = Missing /\ r.DeletionDate = Missing
           ELSE /\ r.Path = I[n].opts["Path"]
                /\ "DeletionDate" \in DOMAIN I[n].opts
                   => r.DeletionDate = I[n].opts["DeletionDate"]

\* C18: a list or restore step on an item that is in the trash reads its
\* record as claimed: "missing" for Path and DeletionDate when the record is
\* absent or has no Path, the stored values otherwise, without an exception.
C18_ReadSentinel ==
    [][((ItemStep("list") \/ (ItemStep("restore") /\ Restorable)) /\ Exists(files, Item))
       => SentinelRead(info, BaseName(Item))]_vars

\* C19: with force set, with or without interactive, no call and no step
\* has asked anything, and none has skipped an item or a destination as on a
\* declined prompt.
C19_ForceNeverAsks ==
    flags.force
        => /\ last.asked = <<>>
           /\ last.outcome # "declined"
           /\ last.sub # "declined"

\* C20: a list or cat call, and each of its steps, with any specifications
\* and flags, whether it prints, fails on an item or raises, leaves the live
\* tree, the files area and the info area exactly as they were.
C20_ReadOnly ==
    [][(pc \in {"idle", "loop"} /\ cmd' \in {"list", "cat"})
       => (live' = live /\ files' = files /\ info' = info)]_vars

\* C20, reached: cat has just printed an item, which is still in the trash
\* with its record.
C20_Witness ==
    /\ last.op = "cat" /\ last.outcome = "printed"
    /\ Exists(files, last.item)
    /\ BaseName(last.item) \in DOMAIN info

====
